---- MODULE Spec2Model ----
(***************************************************************************)
(* Model of samples/rc-zip-sample/src/main.rs: the path truncation         *)
(* (Truncate::truncate_path), the aggregation pass (do_main::info) and the *)
(* subcommand driver (main / do_main).                                     *)
(*                                                                         *)
(* Strings are sequences of Unicode scalar values; a string's len() is its *)
(* UTF-8 byte length, its chars().count() the length of the sequence.      *)
(* u64 values are four 16-bit limbs, least significant first.              *)
(***************************************************************************)
EXTENDS Integers, Sequences, FiniteSets, TLC

\* ------------------------------------------------------------------ bounds
MaxLen == 5
MaxLimit == 6
MaxEntries == 2

\* --------------------------------------------------------------- constants
Slash == 47
Dot == 46
ListWidth == 55
ExitUsage == 1
ExitPanic == 101
LimbBase == 65536
NumLimbs == 4

\* 'a', 'e-acute' (2 bytes), 'grinning face' (4 bytes) and the separator
Alphabet == {Slash, 97, 233, 128512}

\* "a/bb/ccc/dddd/eeeee"
ExamplePath == <<97, 47, 98, 98, 47, 99, 99, 99, 47, 100, 100, 100, 100, 47,
                 101, 101, 101, 101, 101>>

VARIABLES
    \* build profile: TRUE when integer overflow panics (debug), FALSE when it wraps
    overflow_checks,
    \* truncate_path
    path, limit, name_tokens, rest_tokens, tpc, result, iters,
    \* main / do_main
    cmd, verbose, pc, archive, comment, idx, eidx, tw, out, exit_code, failure,
    \* do_main::info
    methods, compressed_size, uncompressed_size, num_dirs, num_symlinks, num_files

truncVars == <<path, limit, name_tokens, rest_tokens, tpc, result, iters>>
infoVars == <<methods, compressed_size, uncompressed_size, num_dirs, num_symlinks, num_files>>
mainVars == <<cmd, verbose, pc, archive, comment, idx, eidx, tw, out, exit_code, failure>>
vars == <<overflow_checks, truncVars, mainVars, infoVars>>

\* ------------------------------------------------------------ string helpers
\* UTF-8 encoded length of one scalar value
Utf8Len(c) == IF c < 128 THEN 1 ELSE IF c < 2048 THEN 2 ELSE IF c < 65536 THEN 3 ELSE 4

RECURSIVE ByteLen(_)
\* str::len(): length in bytes
ByteLen(s) == IF s = <<>> THEN 0 ELSE Utf8Len(Head(s)) + ByteLen(Tail(s))

\* chars().count()
CharLen(s) == Len(s)

RECURSIVE SplitFrom(_, _, _, _)
SplitFrom(s, i, cur, acc) ==
    IF i > Len(s) THEN Append(acc, cur)
    ELSE IF s[i] = Slash THEN SplitFrom(s, i + 1, <<>>, Append(acc, cur))
    ELSE SplitFrom(s, i + 1, Append(cur, s[i]), acc)

\* self.split('/').collect(): always at least one token
Split(s) == SplitFrom(s, 1, <<>>, <<>>)

RECURSIVE Join(_)
\* tokens.join("/")
Join(tokens) ==
    IF tokens = <<>> THEN <<>>
    ELSE IF Len(tokens) = 1 THEN tokens[1]
    ELSE tokens[1] \o <<Slash>> \o Join(Tail(tokens))

RECURSIVE SumLen(_)
\* tokens.iter().map(|x| x.len()).sum()
SumLen(tokens) == IF tokens = <<>> THEN 0 ELSE ByteLen(Head(tokens)) + SumLen(Tail(tokens))

\* chars().take(n)
Take(s, n) == IF n >= Len(s) THEN s ELSE SubSeq(s, 1, n)

Ellipsis == <<Dot, Dot, Dot>>

\* ------------------------------------------------------------ truncate_path
\* line 249
LenSeparators(names, rest) == Len(names) + Len(rest) - 1

\* lines 250-251
LenStrings(names, rest) == SumLen(names) + SumLen(rest)

\* line 252: the joined tokens are under the limit
Fits(names, rest, lim) == LenSeparators(names, rest) + LenStrings(names, rest) < lim

\* lines 262-265: the token cut before its second codepoint, or whole when it has none
Shorten(token) == IF Len(token) >= 2 THEN SubSeq(token, 1, 1) ELSE token

\* faulty variant: the room for the ellipsis is not reserved
HardTruncateNoRoom(name, lim) == Take(name, lim) \o Ellipsis
\* line 259 when limit >= 3
HardTruncate(name, lim) == Take(name, lim - 3) \o Ellipsis

\* line 259 when limit - 3 wraps: take(usize::MAX - k) keeps the whole name
HardTruncateWrapped(name) == name \o Ellipsis

\* lines 252-255
TruncJoin ==
    /\ tpc = "loop"
    /\ Fits(name_tokens, rest_tokens, limit)
    /\ result' = Join(name_tokens \o rest_tokens)
    /\ name_tokens' = name_tokens \o rest_tokens
    /\ rest_tokens' = <<>>
    /\ tpc' = "joined"
    /\ iters' = iters + 1
    /\ UNCHANGED <<path, limit, overflow_checks, mainVars, infoVars>>

\* lines 256-260
TruncHard ==
    /\ tpc = "loop"
    /\ ~Fits(name_tokens, rest_tokens, limit)
    /\ Len(rest_tokens) = 0
    /\ iters' = iters + 1
    /\ IF limit >= 3
         THEN /\ result' = HardTruncate(Join(name_tokens), limit)
              /\ tpc' = "truncated"
         ELSE IF overflow_checks
         THEN /\ result' = result
              /\ tpc' = "panic"
         ELSE /\ result' = HardTruncateWrapped(Join(name_tokens))
              /\ tpc' = "truncated"
    /\ UNCHANGED <<path, limit, name_tokens, rest_tokens, overflow_checks, mainVars, infoVars>>

\* lines 261-265
TruncPop ==
    /\ tpc = "loop"
    /\ ~Fits(name_tokens, rest_tokens, limit)
    /\ Len(rest_tokens) # 0
    /\ name_tokens' = Append(name_tokens, Shorten(Head(rest_tokens)))
    /\ rest_tokens' = Tail(rest_tokens)
    /\ iters' = iters + 1
    /\ UNCHANGED <<path, limit, tpc, result, overflow_checks, mainVars, infoVars>>

RECURSIVE TruncLoop(_, _, _, _)
TruncLoop(names, rest, lim, checks) ==
    IF Fits(names, rest, lim) THEN [kind |-> "joined", value |-> Join(names \o rest)]
    ELSE IF Len(rest) = 0 THEN
        IF lim >= 3 THEN [kind |-> "truncated", value |-> HardTruncate(Join(names), lim)]
        ELSE IF checks THEN [kind |-> "panic", value |-> <<>>]
        ELSE [kind |-> "truncated", value |-> HardTruncateWrapped(Join(names))]
    ELSE TruncLoop(Append(names, Shorten(Head(rest))), Tail(rest), lim, checks)

\* the whole call, as the list subcommand uses it
truncate_path(p, lim, checks) == TruncLoop(<<>>, Split(p), lim, checks)

Paths == UNION {[1..n -> Alphabet] : n \in 0..MaxLen}

TruncInputs == (Paths \X (1..MaxLimit)) \cup {<<ExamplePath, 15>>}

MainIdle ==
    /\ cmd = "none" /\ verbose = FALSE /\ pc = "idle" /\ archive = <<>> /\ comment = <<>>
    /\ idx = 0
    /\ eidx = 0 /\ tw = <<>> /\ out = <<>> /\ exit_code = -1 /\ failure = "none"
    /\ methods = {} /\ compressed_size = <<0, 0, 0, 0>> /\ uncompressed_size = <<0, 0, 0, 0>>
    /\ num_dirs = 0 /\ num_symlinks = 0 /\ num_files = 0

\* a call of truncate_path on a path and a limit
InitTrunc ==
    /\ overflow_checks \in BOOLEAN
    /\ \E in \in TruncInputs :
        /\ path = in[1]
        /\ limit = in[2]
        /\ rest_tokens = Split(in[1])
    /\ name_tokens = <<>>
    /\ tpc = "loop"
    /\ result = <<>>
    /\ iters = 0
    /\ MainIdle

NextTrunc == TruncJoin \/ TruncHard \/ TruncPop

SpecTrunc == InitTrunc /\ [][NextTrunc]_vars

\* ------------------------------------------------------------------- u64
U64(n) == <<n, 0, 0, 0>>
U64Zero == U64(0)
U64Max == <<LimbBase - 1, LimbBase - 1, LimbBase - 1, LimbBase - 1>>

RECURSIVE AddLimbs(_, _, _, _)
AddLimbs(a, b, i, carry) ==
    IF i > NumLimbs THEN [sum |-> <<>>, carry |-> carry]
    ELSE LET s == a[i] + b[i] + carry
             r == AddLimbs(a, b, i + 1, s \div LimbBase)
         IN [sum |-> <<s % LimbBase>> \o r.sum, carry |-> r.carry]

\* u64 `+=`: the wrapped sum and whether it overflowed
U64Add(a, b) == AddLimbs(a, b, 1, 0)

\* ------------------------------------------------------------- the archive
Kinds == {"File", "Directory", "Symlink"}
Methods == {"Store", "Deflate"}

\* <<compressed_size, uncompressed_size>>
SizePairs == {<<U64Zero, U64Zero>>, <<U64(512), U64(1024)>>,
              <<U64(1), U64Zero>>, <<U64Max, U64Max>>}

LongName == [i \in 1..(ListWidth + 1) |-> 97]
NameOf(kind) ==
    IF kind = "File" THEN <<97, Slash, 233>>
    ELSE IF kind = "Directory" THEN <<97, Slash>>
    ELSE LongName

Entries ==
    {[name |-> NameOf(k), kind |-> k, method |-> m,
      compressed_size |-> sp[1], uncompressed_size |-> sp[2]] :
        k \in Kinds, m \in Methods, sp \in SizePairs}

Archives == UNION {[1..n -> Entries] : n \in 0..MaxEntries}

\* archive.comment(): None, or Some("hi")
Comments == {<<>>, <<<<104, 105>>>>}

\* entry contents read into memory: "e-acute" and one byte that is no UTF-8
Contents == {<<195, 169>>, <<255>>}

\* a UTF-8 continuation byte, 0x80..0xBF
Utf8Cont(bytes, i) == i <= Len(bytes) /\ bytes[i] >= 128 /\ bytes[i] <= 191
\* the byte at i lies in lo..hi
Utf8In(bytes, i, lo, hi) == i <= Len(bytes) /\ bytes[i] >= lo /\ bytes[i] <= hi

RECURSIVE Utf8From(_, _)
\* the bytes from position i on are well-formed UTF-8: no overlong form, no
\* surrogate, nothing above U+10FFFF, no truncated sequence
Utf8From(bytes, i) ==
    IF i > Len(bytes) THEN TRUE
    ELSE LET b == bytes[i] IN
        IF b < 128 THEN Utf8From(bytes, i + 1)
        ELSE IF b >= 194 /\ b <= 223
            THEN Utf8Cont(bytes, i + 1) /\ Utf8From(bytes, i + 2)
        ELSE IF b >= 224 /\ b <= 239
            THEN /\ Utf8In(bytes, i + 1, IF b = 224 THEN 160 ELSE 128,
                                         IF b = 237 THEN 159 ELSE 191)
                 /\ Utf8Cont(bytes, i + 2)
                 /\ Utf8From(bytes, i + 3)
        ELSE IF b >= 240 /\ b <= 244
            THEN /\ Utf8In(bytes, i + 1, IF b = 240 THEN 144 ELSE 128,
                                         IF b = 244 THEN 143 ELSE 191)
                 /\ Utf8Cont(bytes, i + 2)
                 /\ Utf8Cont(bytes, i + 3)
                 /\ Utf8From(bytes, i + 4)
        ELSE FALSE

\* std::str::from_utf8(..).is_ok()
FromUtf8Ok(bytes) == Utf8From(bytes, 1)

Cmds == {"info", "list", "extract", "compress", "none"}

\* -------------------------------------------------------------- do_main::info
\* line 144: compressed_size as f64 / uncompressed_size as f64 * 100.0; a finite
\* quotient is kept as its operands
Ratio(c, u) ==
    IF u = U64Zero
    THEN [text |-> IF c = U64Zero THEN "NaN" ELSE "inf", num |-> c, den |-> u]
    ELSE [text |-> "pct", num |-> c, den |-> u]

\* faulty variant: a symlink is counted as a directory
InfoEntrySymlinkAsDir(st, e, checks) ==
    IF e.kind \in {"Symlink", "Directory"} THEN [st EXCEPT !.num_dirs = @ + 1]
    ELSE LET c == U64Add(st.compressed_size, e.compressed_size)
             u == U64Add(st.uncompressed_size, e.uncompressed_size)
             s1 == [st EXCEPT !.methods = @ \cup {e.method}, !.num_files = @ + 1]
         IN IF c.carry # 0 /\ checks THEN [s1 EXCEPT !.panicked = TRUE]
            ELSE IF u.carry # 0 /\ checks
                 THEN [s1 EXCEPT !.compressed_size = c.sum, !.panicked = TRUE]
            ELSE [s1 EXCEPT !.compressed_size = c.sum, !.uncompressed_size = u.sum]

\* lines 121-134 for one entry; `panicked` when a `+=` overflows with overflow checks
InfoEntry(st, e, checks) ==
    IF e.kind = "Symlink" THEN [st EXCEPT !.num_symlinks = @ + 1]
    ELSE IF e.kind = "Directory" THEN [st EXCEPT !.num_dirs = @ + 1]
    ELSE LET c == U64Add(st.compressed_size, e.compressed_size)
             u == U64Add(st.uncompressed_size, e.uncompressed_size)
             s1 == [st EXCEPT !.methods = @ \cup {e.method}, !.num_files = @ + 1]
         IN IF c.carry # 0 /\ checks THEN [s1 EXCEPT !.panicked = TRUE]
            ELSE IF u.carry # 0 /\ checks
                 THEN [s1 EXCEPT !.compressed_size = c.sum, !.panicked = TRUE]
            ELSE [s1 EXCEPT !.compressed_size = c.sum, !.uncompressed_size = u.sum]

InfoState ==
    [methods |-> methods, compressed_size |-> compressed_size,
     uncompressed_size |-> uncompressed_size, num_dirs |-> num_dirs,
     num_symlinks |-> num_symlinks, num_files |-> num_files, panicked |-> FALSE]

\* lines 141-148
SummaryLine ==
    [line |-> "summary", uncompressed_size |-> uncompressed_size,
     ratio |-> Ratio(compressed_size, uncompressed_size), methods |-> methods,
     num_files |-> num_files, num_dirs |-> num_dirs, num_symlinks |-> num_symlinks]

\* println! panics when standard output cannot be written
StdoutPanic ==
    /\ pc' = "panicked"
    /\ failure' = "write"
    /\ exit_code' = ExitPanic

\* lines 104-106: archive.comment() is read and printed when there is one
InfoComment ==
    /\ pc = "comment"
    /\ \E c \in Comments :
        /\ comment' = c
        /\ IF c = <<>>
             THEN pc' = "sweep" /\ UNCHANGED <<out, failure, exit_code>>
             ELSE \/ /\ out' = Append(out, [line |-> "comment", text |-> c[1]])
                     /\ pc' = "sweep"
                     /\ UNCHANGED <<failure, exit_code>>
                  \/ StdoutPanic /\ UNCHANGED out
    /\ UNCHANGED <<cmd, verbose, archive, idx, eidx, tw, overflow_checks,
                   truncVars, infoVars>>

\* one iteration of the loop at line 118
InfoStep ==
    /\ pc = "sweep"
    /\ idx < Len(archive)
    /\ LET st == InfoEntry(InfoState, archive[idx + 1], overflow_checks) IN
        /\ methods' = st.methods
        /\ compressed_size' = st.compressed_size
        /\ uncompressed_size' = st.uncompressed_size
        /\ num_dirs' = st.num_dirs
        /\ num_symlinks' = st.num_symlinks
        /\ num_files' = st.num_files
        /\ IF st.panicked
             THEN /\ pc' = "panicked"
                  /\ failure' = "overflow"
                  /\ exit_code' = ExitPanic
                  /\ idx' = idx
             ELSE /\ idx' = idx + 1
                  /\ UNCHANGED <<pc, failure, exit_code>>
    /\ UNCHANGED <<cmd, verbose, comment, archive, eidx, tw, out, overflow_checks, truncVars>>

\* lines 136-148, then the return to the caller (line 154 or 209)
InfoPrint ==
    /\ pc = "sweep"
    /\ idx = Len(archive)
    /\ \/ /\ out' = Append(out, SummaryLine)
          /\ IF cmd = "info"
               THEN pc' = "exited" /\ exit_code' = 0
               ELSE pc' = "extract" /\ UNCHANGED exit_code
          /\ UNCHANGED failure
       \/ StdoutPanic /\ UNCHANGED out
    /\ UNCHANGED <<cmd, verbose, comment, archive, idx, eidx, tw, overflow_checks,
                   truncVars, infoVars>>

\* ------------------------------------------------------------------- do_main
\* lines 231-234
Usage ==
    /\ pc = "start" /\ cmd = "none"
    /\ \/ /\ out' = Append(out, [line |-> "usage"])
          /\ pc' = "exited"
          /\ exit_code' = ExitUsage
          /\ UNCHANGED failure
       \/ StdoutPanic /\ UNCHANGED out
    /\ UNCHANGED <<cmd, verbose, comment, archive, idx, eidx, tw, overflow_checks,
                   truncVars, infoVars>>

\* lines 225-227: `output` is declared at lines 89-95 with a long and a short
\* name and no value, so it is a flag, value_of("output") is None and the
\* unwrap of line 227 panics; lines 228-229 are never reached
Compress ==
    /\ pc = "start" /\ cmd = "compress"
    /\ pc' = "panicked"
    /\ failure' = "unwrap"
    /\ exit_code' = ExitPanic
    /\ UNCHANGED out
    /\ UNCHANGED <<cmd, verbose, comment, archive, idx, eidx, tw, overflow_checks, truncVars, infoVars>>

\* faulty variant: the Err is dropped and the run ends as a success
AbortIgnored(why) ==
    /\ pc' = "exited"
    /\ failure' = why
    /\ exit_code' = 0

\* an Err returned by `?` reaches do_main(matches).unwrap() at line 99
Abort(why) ==
    /\ pc' = "panicked"
    /\ failure' = why
    /\ exit_code' = ExitPanic

\* File::open at lines 153, 157, 207
OpenFile ==
    /\ pc = "start" /\ cmd \in {"info", "list", "extract"}
    /\ \/ pc' = "opened" /\ UNCHANGED <<failure, exit_code>>
       \/ Abort("open")
    /\ UNCHANGED <<cmd, verbose, comment, archive, idx, eidx, tw, out, overflow_checks,
                   truncVars, infoVars>>

\* read_zip at lines 153, 158, 208
ReadZip ==
    /\ pc = "opened"
    /\ \/ /\ \E a \in Archives : archive' = a
          /\ pc' = IF cmd = "list" THEN "list_header" ELSE "comment"
          /\ UNCHANGED <<failure, exit_code>>
       \/ Abort("parse") /\ UNCHANGED archive
    /\ UNCHANGED <<cmd, verbose, comment, idx, eidx, tw, out, overflow_checks, truncVars, infoVars>>

\* lines 166-170
ListHeader ==
    /\ pc = "list_header"
    /\ tw' = Append(tw, [line |-> "header", verbose |-> verbose])
    /\ pc' = "list"
    /\ UNCHANGED <<cmd, verbose, comment, archive, idx, eidx, out, exit_code, failure,
                   overflow_checks, truncVars, infoVars>>

\* a row of the table without its mode, size and verbose columns
Row(e, target) ==
    [line |-> "row", name |-> truncate_path(e.name, ListWidth, overflow_checks).value,
     target |-> target]

\* lines 172-203, one entry
ListEntry ==
    /\ pc = "list"
    /\ eidx < Len(archive)
    /\ LET e == archive[eidx + 1] IN
        IF verbose /\ e.kind = "Symlink"
        THEN \/ /\ \E target \in Contents :
                    /\ FromUtf8Ok(target)
                    /\ tw' = Append(tw, Row(e, target))
                /\ eidx' = eidx + 1
                /\ UNCHANGED <<pc, failure, exit_code>>
             \/ Abort("read") /\ UNCHANGED <<tw, eidx>>
        ELSE /\ tw' = Append(tw, Row(e, <<>>))
             /\ eidx' = eidx + 1
             /\ UNCHANGED <<pc, failure, exit_code>>
    /\ UNCHANGED <<cmd, verbose, comment, archive, idx, out, overflow_checks, truncVars, infoVars>>

\* line 204: the table reaches standard output line by line and Ok(()) follows
\* at line 237, or a write fails after the first k lines and tw.flush()?
\* returns the Err
ListFlush ==
    /\ pc = "list"
    /\ eidx = Len(archive)
    /\ \/ /\ out' = out \o tw
          /\ tw' = <<>>
          /\ pc' = "exited"
          /\ exit_code' = 0
          /\ UNCHANGED failure
       \/ /\ \E k \in 0..(Len(tw) - 1) :
                /\ out' = out \o SubSeq(tw, 1, k)
                /\ tw' = SubSeq(tw, k + 1, Len(tw))
          /\ Abort("write")
    /\ UNCHANGED <<cmd, verbose, comment, archive, idx, eidx, overflow_checks,
                   truncVars, infoVars>>

ExtractingLine(i) == [line |-> "extracting", entry |-> i, name |-> archive[i].name]
ContentsLine(i, bytes) ==
    [line |-> "contents", entry |-> i, text |-> FromUtf8Ok(bytes), bytes |-> bytes]

\* faulty variant: a failed read is skipped and the loop goes on
ExtractEntryKeepGoing ==
    /\ pc = "extract"
    /\ eidx < Len(archive)
    /\ \/ /\ \E bytes \in Contents :
                out' = out \o <<ExtractingLine(eidx + 1), ContentsLine(eidx + 1, bytes)>>
          /\ eidx' = eidx + 1
          /\ UNCHANGED <<pc, failure, exit_code>>
       \/ /\ out' = Append(out, ExtractingLine(eidx + 1))
          /\ eidx' = eidx + 1
          /\ failure' = "read"
          /\ UNCHANGED <<pc, exit_code>>
       \/ StdoutPanic /\ UNCHANGED <<out, eidx>>
       \/ /\ out' = Append(out, ExtractingLine(eidx + 1))
          /\ StdoutPanic
          /\ UNCHANGED eidx
    /\ UNCHANGED <<cmd, verbose, comment, archive, idx, tw, overflow_checks, truncVars, infoVars>>

\* lines 211-223, one entry
ExtractEntry ==
    /\ pc = "extract"
    /\ eidx < Len(archive)
    /\ \/ /\ \E bytes \in Contents :
                out' = out \o <<ExtractingLine(eidx + 1), ContentsLine(eidx + 1, bytes)>>
          /\ eidx' = eidx + 1
          /\ UNCHANGED <<pc, failure, exit_code>>
       \/ /\ out' = Append(out, ExtractingLine(eidx + 1))
          /\ Abort("read")
          /\ UNCHANGED eidx
       \/ StdoutPanic /\ UNCHANGED <<out, eidx>>
       \/ /\ out' = Append(out, ExtractingLine(eidx + 1))
          /\ StdoutPanic
          /\ UNCHANGED eidx
    /\ UNCHANGED <<cmd, verbose, comment, archive, idx, tw, overflow_checks, truncVars, infoVars>>

\* the loop at line 211 is over: Ok(()) at line 237
ExtractDone ==
    /\ pc = "extract"
    /\ eidx = Len(archive)
    /\ pc' = "exited"
    /\ exit_code' = 0
    /\ UNCHANGED <<cmd, verbose, comment, archive, idx, eidx, tw, out, failure, overflow_checks,
                   truncVars, infoVars>>

TruncIdle ==
    /\ path = <<>> /\ limit = 0 /\ name_tokens = <<>> /\ rest_tokens = <<>>
    /\ tpc = "idle" /\ result = <<>> /\ iters = 0

Init ==
    /\ overflow_checks \in BOOLEAN
    /\ cmd \in Cmds
    /\ verbose \in (IF cmd = "list" THEN BOOLEAN ELSE {FALSE})
    /\ pc = "start"
    /\ archive = <<>> /\ comment = <<>> /\ idx = 0 /\ eidx = 0 /\ tw = <<>> /\ out = <<>>
    /\ exit_code = -1 /\ failure = "none"
    /\ methods = {} /\ compressed_size = U64Zero /\ uncompressed_size = U64Zero
    /\ num_dirs = 0 /\ num_symlinks = 0 /\ num_files = 0
    /\ TruncIdle

Next ==
    \/ Usage \/ Compress \/ OpenFile \/ ReadZip
    \/ InfoComment \/ InfoStep \/ InfoPrint
    \/ ListHeader \/ ListEntry \/ ListFlush
    \/ ExtractEntry \/ ExtractDone

Spec == Init /\ [][Next]_vars

\* ===================================================================== claims
Returned == tpc \in {"joined", "truncated"}

\* C1: for every path and every limit L >= 4, truncate_path returns a string
\* of at most L codepoints, from either exit of the loop.
C1_LengthWithinLimit ==
    limit >= 4 => /\ tpc # "panic"
                  /\ Returned => CharLen(result) <= limit

C1_Witness ==
    /\ tpc = "truncated" /\ limit >= 4 /\ CharLen(result) = limit
    /\ \E i \in 1..Len(path) : Utf8Len(path[i]) > 1

\* C2: a path whose length in characters is strictly less than the limit is
\* returned unchanged, multi-byte codepoints included. Stated for the limits
\* at which limit - 3 is defined, so that a violation rests on nothing else.
C2_ShortPathUnchanged ==
    (Returned /\ limit >= 3 /\ CharLen(path) < limit)
        => (tpc = "joined" /\ result = path)

\* C3: when the uncompressed total is 0 the summary does not carry a ratio
\* computed with a zero divisor.
C3_RatioGuarded ==
    \A i \in 1..Len(out) :
        (out[i].line = "summary" /\ out[i].uncompressed_size = U64Zero)
            => out[i].ratio.text = "omitted"

SummaryPrinted == \E i \in 1..Len(out) : out[i].line = "summary"

CountKind(n, k) == Cardinality({i \in 1..n : archive[i].kind = k})

\* C4: after k entries of the sweep, num_files + num_dirs + num_symlinks = k,
\* each counter being the number of entries of its kind among them; when the
\* sweep is over they sum to the number of entries of the archive.
C4_CountsSumToVisited ==
    (cmd \in {"info", "extract"} /\ failure # "overflow") =>
        /\ num_files + num_dirs + num_symlinks = idx
        /\ num_files = CountKind(idx, "File")
        /\ num_dirs = CountKind(idx, "Directory")
        /\ num_symlinks = CountKind(idx, "Symlink")
        /\ SummaryPrinted => idx = Len(archive)

C4_Witness ==
    /\ cmd = "info" /\ pc = "exited" /\ idx = Len(archive) /\ idx >= 2
    /\ num_files = 1 /\ num_symlinks = 1

\* natural numbers of any size, as limbs without leading zeros
RECURSIVE Strip(_)
Strip(a) == IF a # <<>> /\ a[Len(a)] = 0 THEN Strip(SubSeq(a, 1, Len(a) - 1)) ELSE a

LimbAt(a, i) == IF i <= Len(a) THEN a[i] ELSE 0

RECURSIVE BigAddFrom(_, _, _, _)
BigAddFrom(a, b, i, carry) ==
    IF i > Len(a) /\ i > Len(b) THEN (IF carry = 0 THEN <<>> ELSE <<carry>>)
    ELSE LET s == LimbAt(a, i) + LimbAt(b, i) + carry
         IN <<s % LimbBase>> \o BigAddFrom(a, b, i + 1, s \div LimbBase)

BigAdd(a, b) == Strip(BigAddFrom(a, b, 1, 0))

RECURSIVE FileSum(_, _)
\* the sum of a size field over the File entries among the first n
FileSum(n, compressed) ==
    IF n = 0 THEN <<>>
    ELSE IF archive[n].kind # "File" THEN FileSum(n - 1, compressed)
    ELSE BigAdd(FileSum(n - 1, compressed),
                IF compressed THEN archive[n].compressed_size
                ELSE archive[n].uncompressed_size)

FileMethods(n) == {archive[i].method : i \in {j \in 1..n : archive[j].kind = "File"}}

\* C5: Directory and Symlink entries leave the totals and the method set
\* alone; the totals are the sums of the size fields over the File entries.
C5_TotalsAreFileSums ==
    (cmd \in {"info", "extract"} /\ failure # "overflow") =>
        /\ Strip(compressed_size) = FileSum(idx, TRUE)
        /\ Strip(uncompressed_size) = FileSum(idx, FALSE)
        /\ methods = FileMethods(idx)

\* C6: a single token longer than the limit comes back as its first
\* limit - 3 codepoints followed by "...". Stated for the limits at which
\* limit - 3 is defined.
C6_SingleTokenHardTruncated ==
    (/\ Returned
     /\ limit >= 3
     /\ \A i \in 1..Len(path) : path[i] # Slash
     /\ CharLen(path) > limit)
        => (tpc = "truncated" /\ result = Take(path, limit - 3) \o Ellipsis)

Tokens == Split(path)
LastToken == Tokens[Len(Tokens)]
\* the path with every segment but the last cut to its first codepoint
Elided == Join([i \in 1..Len(Tokens) |->
                    IF i < Len(Tokens) THEN Shorten(Tokens[i]) ELSE Tokens[i]])
EndsWith(s, t) == Len(t) <= Len(s) /\ SubSeq(s, Len(s) - Len(t) + 1, Len(s)) = t

\* C7: when the path with its non-final segments cut to one codepoint is
\* shorter than the limit, the result ends with the whole final segment.
\* Stated for the limits at which limit - 3 is defined.
C7_FinalSegmentKept ==
    (Returned /\ limit >= 3 /\ CharLen(Elided) < limit)
        => (tpc = "joined" /\ EndsWith(result, LastToken))

\* C8: for every positive limit the call takes at most tokens + 1 iterations,
\* returns a string no longer than the limit and never takes limit - 3 below 0.
C8_AnyPositiveLimit ==
    /\ iters <= Len(Tokens) + 1
    /\ tpc # "panic"
    /\ Returned => CharLen(result) <= limit

Ended == pc \in {"exited", "panicked"}

\* C9: a run ends with status 0 only when the subcommand is info, list or
\* extract and nothing failed; a failed open, parse or entry read, a missing
\* subcommand and every compress end with a non-zero status.
C9_ExitStatus ==
    /\ exit_code = 0 =>
        (cmd \in {"info", "list", "extract"} /\ failure = "none" /\ pc = "exited")
    /\ (Ended /\ (failure \in {"open", "parse", "read"} \/ cmd \in {"none", "compress"}))
        => exit_code > 0
    /\ Ended <=> exit_code # -1

C9_Witness ==
    /\ cmd = "extract" /\ failure = "read" /\ eidx = 1 /\ exit_code = ExitPanic

\* standard output after the archive comment, which info prints first
Lines == IF out # <<>> /\ out[1].line = "comment" THEN Tail(out) ELSE out

\* the lines of the first n entries, each "Extracting" followed by its contents
EntryLinesOk(n) ==
    \A i \in 1..n :
        /\ Lines[2 * i] = ExtractingLine(i)
        /\ Lines[2 * i + 1].line = "contents"
        /\ Lines[2 * i + 1].entry = i

\* C10: extract prints the summary before it reads any entry, then the entries
\* in order; a failed read of entry i ends the run with the summary, the
\* lines of entries 1..i-1 and "Extracting i" printed, and nothing after. (A
\* run that standard output ends stops the same way, at the line it could
\* not print.)
C10_ExtractOrderedFailFast ==
    cmd = "extract" =>
        IF pc \in {"start", "opened", "comment", "sweep"}
           \/ failure \in {"open", "parse", "overflow"}
           \/ (failure = "write" /\ Lines = <<>>)
        THEN Lines = <<>> /\ eidx = 0
        ELSE /\ eidx <= Len(archive)
             /\ Len(Lines) >= 2 * eidx + 1
             /\ Lines[1].line = "summary"
             /\ EntryLinesOk(eidx)
             /\ IF failure = "read"
                  THEN /\ pc = "panicked" /\ exit_code # 0
                       /\ eidx < Len(archive)
                       /\ Len(Lines) = 2 * eidx + 2
                       /\ Lines[Len(Lines)] = ExtractingLine(eidx + 1)
                  ELSE IF failure = "write"
                  THEN /\ pc = "panicked" /\ exit_code # 0
                       /\ eidx < Len(archive)
                       /\ \/ Len(Lines) = 2 * eidx + 1
                          \/ /\ Len(Lines) = 2 * eidx + 2
                             /\ Lines[Len(Lines)] = ExtractingLine(eidx + 1)
                  ELSE /\ Len(Lines) = 2 * eidx + 1
                       /\ pc = "exited" => eidx = Len(archive)

C10_Witness ==
    /\ cmd = "extract" /\ failure = "read" /\ eidx = 1 /\ Len(Lines) = 4
    /\ Lines[2].line = "extracting" /\ Lines[3].line = "contents" /\ Lines[4].entry = 2

====
